---- MODULE Spec2Model ----
(***************************************************************************)
(* upsman: a single-shot command line client of a NUT UPS server.          *)
(* One behaviour of this module is one invocation of the binary           *)
(* (src/src/main.rs): argument parsing, connection, dispatch to load_on,   *)
(* load_off or usage, and the usage loop with its parse_var helper.        *)
(* The NUT connection (rups::blocking::Connection) is an external          *)
(* collaborator: each of its calls is logged in `calls` and its outcome    *)
(* is chosen nondeterministically.  Texts are TLA+ strings, taken apart    *)
(* with Len, SubSeq and \o.                                                *)
(***************************************************************************)
EXTENDS Integers, Sequences, FiniteSets, TLC

VARIABLES
    command,      \* opt.command: "load-off", "load-on" or "usage"
    tokens,       \* the usage_types tokens as typed on the command line
    ups_name,     \* opt.ups_name
    pc,           \* position of the invocation in main / usage
    usage_types,  \* Command::Usage { usage_types }, once the tokens are resolved
    idx,          \* 1-based position of the for loop of usage
    voltage_out,  \* the local voltage_out of usage, between the two fetches
    calls,        \* every call made to the collaborator, in order, with its outcome
    stdout,       \* the lines written to standard output, in order
    error,        \* the error the invocation ended with ("" when none)
    exit_code     \* process exit status (-1 while running)

vars == <<command, tokens, ups_name, pc, usage_types, idx, voltage_out,
          calls, stdout, error, exit_code>>

----------------------------------------------------------------------------
(* Bounds of the model *)

\* longest usage token list of an invocation of Spec
MaxTypes == 2

\* longest usage token list of an invocation of SpecResolve
MaxTokens == 2

----------------------------------------------------------------------------
(* Inputs *)

\* the tokens of the synonym table of from_str
SynonymTokens ==
    {"vin", "volt_in", "voltage_in", "vout", "volt_out", "voltage_out",
     "cout", "cur_out", "current_out", "pwr", "power"}

\* tokens that from_str does not list: case variants, padded, empty, others
OtherTokens == {"VIN", "Power", " vin", "pwr ", "", "voltage", "watts"}

AllTokens == SynonymTokens \cup OtherTokens

\* the tokens the invocations of Spec draw from
UsageTokens == {"voltage_in", "vout", "current_out", "pwr", "power", "VIN"}

UpsNames == {"apc", "eaton"}

Commands == {"load-off", "load-on", "usage"}

\* texts a get_var call may come back with (Display of the returned Variable)
Texts ==
    {"output.voltage: 120.0", "output.current: 2.0", "input.voltage: 118.5",
     "output.current: -0.5", "120.0", "output.voltage: n/a",
     "ups.status: OL: 2.0"}

SeqsUpTo(S, n) == UNION {[1..k -> S] : k \in 0..n}

----------------------------------------------------------------------------
(* Results *)

Ok(v) == [ok |-> TRUE, val |-> v, err |-> ""]

Err(e) == [ok |-> FALSE, val |-> "", err |-> e]

\* errors reported by the collaborator, opaque to this program
HostError == "nut: invalid host"
ConnectError == "nut: connection failed"
RunCommandError == "nut: command rejected"
GetVarError == "nut: variable unavailable"

----------------------------------------------------------------------------
(* UsageType *)

UsageType == {"VoltageIn", "VoltageOut", "CurrentOut", "Power"}

\* mutation of from_str: the match folds case
from_str_folding(s) ==
    CASE s \in {"vin", "volt_in", "voltage_in", "VIN"} -> Ok("VoltageIn")
      [] s \in {"vout", "volt_out", "voltage_out"} -> Ok("VoltageOut")
      [] s \in {"cout", "cur_out", "current_out"} -> Ok("CurrentOut")
      [] s \in {"pwr", "power", "Power"} -> Ok("Power")
      [] OTHER -> Err("Invalid usage type value.")

from_str(s) ==
    CASE s \in {"vin", "volt_in", "voltage_in"} -> Ok("VoltageIn")
      [] s \in {"vout", "volt_out", "voltage_out"} -> Ok("VoltageOut")
      [] s \in {"cout", "cur_out", "current_out"} -> Ok("CurrentOut")
      [] s \in {"pwr", "power"} -> Ok("Power")
      [] OTHER -> Err("Invalid usage type value.")

var_name(ut) ==
    CASE ut = "VoltageIn" -> "input.voltage"
      [] ut = "VoltageOut" -> "output.voltage"
      [] ut = "CurrentOut" -> "output.current"
      [] ut = "Power" -> ""

----------------------------------------------------------------------------
(* Text and numbers *)

CharAt(s, k) == SubSeq(s, k, k)

\* str::splitn(2, ": ").nth(1): the text after the first ": ", if there is one
RECURSIVE FindSep(_, _)
FindSep(s, k) ==
    IF k + 1 > Len(s) THEN 0
    ELSE IF SubSeq(s, k, k + 1) = ": " THEN k
    ELSE FindSep(s, k + 1)

\* mutation of splitn2_nth1: a text without separator is taken whole
splitn2_nth1_lenient(s) ==
    LET k == FindSep(s, 1)
    IN  IF k = 0 THEN Ok(s) ELSE Ok(SubSeq(s, k + 2, Len(s)))

splitn2_nth1(s) ==
    LET k == FindSep(s, 1)
    IN  IF k = 0 THEN Err("") ELSE Ok(SubSeq(s, k + 2, Len(s)))

Digits == {"0", "1", "2", "3", "4", "5", "6", "7", "8", "9"}

DigitVal(c) ==
    CASE c = "0" -> 0 [] c = "1" -> 1 [] c = "2" -> 2 [] c = "3" -> 3
      [] c = "4" -> 4 [] c = "5" -> 5 [] c = "6" -> 6 [] c = "7" -> 7
      [] c = "8" -> 8 [] c = "9" -> 9

\* the decimal digits of s read as one natural number, dots skipped
RECURSIVE Mantissa(_, _, _)
Mantissa(s, k, acc) ==
    IF k > Len(s) THEN acc
    ELSE IF CharAt(s, k) = "." THEN Mantissa(s, k + 1, acc)
    ELSE Mantissa(s, k + 1, 10 * acc + DigitVal(CharAt(s, k)))

\* A number is sign, mantissa and decimal scale: (-1)^neg * mant / 10^scale.
\* <f64 as FromStr>::from_str on the decimal forms [+-]digits[.digits]:
\* no trimming, at least one digit, at most one dot.  (Exponents, "inf" and
\* "nan" do not occur in Texts.)
parse_f64(v) ==
    LET signed == Len(v) > 0 /\ CharAt(v, 1) \in {"+", "-"}
        body == IF signed THEN SubSeq(v, 2, Len(v)) ELSE v
        dots == {k \in 1..Len(body) : CharAt(body, k) = "."}
        digs == {k \in 1..Len(body) : CharAt(body, k) \in Digits}
    IN  IF /\ Cardinality(digs) >= 1
           /\ Cardinality(dots) <= 1
           /\ Cardinality(digs) + Cardinality(dots) = Len(body)
        THEN Ok([neg |-> signed /\ CharAt(v, 1) = "-",
                 mant |-> Mantissa(body, 1, 0),
                 scale |-> IF dots = {} THEN 0
                           ELSE Len(body) - (CHOOSE k \in dots : TRUE)])
        ELSE Err("")

\* mutation of Mul: the two values (of equal scale) are added
Mul_sum(a, b) ==
    [neg |-> a.neg, mant |-> a.mant + b.mant, scale |-> a.scale]

\* voltage_out * current_out
Mul(a, b) ==
    [neg |-> a.neg /= b.neg, mant |-> a.mant * b.mant, scale |-> a.scale + b.scale]

RECURSIVE Pow10(_)
Pow10(n) == IF n = 0 THEN 1 ELSE 10 * Pow10(n - 1)

\* {:.2} of a number with at most two decimals (every product of two values
\* of Texts: they are binary fractions, so the f64 product is exact too)
Format2(x) ==
    LET cents == x.mant * Pow10(2 - x.scale)
        frac == cents % 100
    IN  (IF x.neg THEN "-" ELSE "") \o ToString(cents \div 100) \o "."
        \o ToString(frac \div 10) \o ToString(frac % 10)

\* println!("power: {power:.2} W")
PowerLine(v, c) == "power: " \o Format2(Mul(v, c)) \o " W"

----------------------------------------------------------------------------
(* The collaborator *)

ConnectCall(ok) ==
    [op |-> "connect", ups |-> "", arg |-> "", ok |-> ok, resp |-> ""]

RunCommandCall(ups, cmd, ok) ==
    [op |-> "run_command", ups |-> ups, arg |-> cmd, ok |-> ok, resp |-> ""]

GetVarCall(ups, name, r) ==
    [op |-> "get_var", ups |-> ups, arg |-> name, ok |-> r.ok, resp |-> r.val]

\* what a get_var call can come back with
GetVarOutcomes == {Ok(t) : t \in Texts} \cup {Err(GetVarError)}

\* parse_var::<f64>, given what its get_var call came back with
parse_var(r, name) ==
    IF ~r.ok THEN Err(r.err)
    ELSE LET part == splitn2_nth1(r.val)
             num == IF part.ok THEN parse_f64(part.val) ELSE Err("")
         IN  IF num.ok THEN num
             ELSE Err("Variable " \o name \o " not found")

----------------------------------------------------------------------------
(* The invocation *)

NoNumber == [neg |-> FALSE, mant |-> 0, scale |-> 0]

InitWith(T, n) ==
    /\ command \in Commands
    /\ tokens \in IF command = "usage" THEN SeqsUpTo(T, n) ELSE {<<>>}
    /\ ups_name \in UpsNames
    /\ pc = "start"
    /\ usage_types = <<>>
    /\ idx = 1
    /\ voltage_out = NoNumber
    /\ calls = <<>>
    /\ stdout = <<>>
    /\ error = ""
    /\ exit_code = -1

Init == InitWith(UsageTokens, MaxTypes)

\* main returns: the process ends with error e ("" for Ok) and exit status code
Exit(e, code) ==
    /\ pc' = "exit"
    /\ error' = e
    /\ exit_code' = code

\* mutation of ParseArgs: unrecognized tokens are dropped, the others kept
ParseArgs_skip_bad ==
    /\ pc = "start"
    /\ LET good == SelectSeq(tokens, LAMBDA t : from_str(t).ok)
       IN  usage_types' = [k \in DOMAIN good |-> from_str(good[k]).val]
    /\ pc' = "config"
    /\ UNCHANGED <<command, tokens, ups_name, idx, voltage_out, calls, stdout,
                   error, exit_code>>

\* Opt::from_args(): every token goes through from_str; the first one that
\* fails ends the process (clap reports it and exits with status 2)
ParseArgs ==
    /\ pc = "start"
    /\ LET res == [k \in DOMAIN tokens |-> from_str(tokens[k])]
           bad == {k \in DOMAIN tokens : ~res[k].ok}
       IN  IF bad = {}
           THEN /\ usage_types' = [k \in DOMAIN tokens |-> res[k].val]
                /\ pc' = "config"
                /\ UNCHANGED <<error, exit_code>>
           ELSE /\ Exit(res[CHOOSE k \in bad : \A j \in bad : k <= j].err, 2)
                /\ UNCHANGED usage_types
    /\ UNCHANGED <<command, tokens, ups_name, idx, voltage_out, calls, stdout>>

\* (opt.server.clone(), opt.port).try_into()? and the ConfigBuilder
BuildConfig ==
    /\ pc = "config"
    /\ \E ok \in BOOLEAN :
         IF ok THEN pc' = "connect" /\ UNCHANGED <<error, exit_code>>
         ELSE Exit(HostError, 1)
    /\ UNCHANGED <<command, tokens, ups_name, usage_types, idx, voltage_out,
                   calls, stdout>>

\* Connection::new(&config)?
Connect ==
    /\ pc = "connect"
    /\ \E ok \in BOOLEAN :
         /\ calls' = Append(calls, ConnectCall(ok))
         /\ IF ok THEN pc' = "dispatch" /\ UNCHANGED <<error, exit_code>>
            ELSE Exit(ConnectError, 1)
    /\ UNCHANGED <<command, tokens, ups_name, usage_types, idx, voltage_out,
                   stdout>>

\* mutation of RunCommand: a rejected command is sent a second time
RunCommand_retry(cmd) ==
    /\ \E ok \in BOOLEAN :
         IF ok
         THEN /\ calls' = Append(calls, RunCommandCall(ups_name, cmd, TRUE))
              /\ Exit("", 0)
         ELSE \E again \in BOOLEAN :
                /\ calls' = calls \o <<RunCommandCall(ups_name, cmd, FALSE),
                                       RunCommandCall(ups_name, cmd, again)>>
                /\ IF again THEN Exit("", 0) ELSE Exit(RunCommandError, 1)
    /\ UNCHANGED <<command, tokens, ups_name, usage_types, idx, voltage_out,
                   stdout>>

\* connection.run_command(&opt.ups_name, Some(cmd))?, then Ok(()) of main
RunCommand(cmd) ==
    /\ \E ok \in BOOLEAN :
         /\ calls' = Append(calls, RunCommandCall(ups_name, cmd, ok))
         /\ IF ok THEN Exit("", 0) ELSE Exit(RunCommandError, 1)
    /\ UNCHANGED <<command, tokens, ups_name, usage_types, idx, voltage_out,
                   stdout>>

load_on ==
    /\ pc = "dispatch"
    /\ command = "load-on"
    /\ RunCommand("load.on")

\* mutation of load_off: the command of load_on is sent
load_off_sends_on ==
    /\ pc = "dispatch"
    /\ command = "load-off"
    /\ \E ok \in BOOLEAN :
         /\ calls' = Append(calls, RunCommandCall(ups_name, "load.on", ok))
         /\ IF ok THEN Exit("", 0) ELSE Exit(RunCommandError, 1)
    /\ UNCHANGED <<command, tokens, ups_name, usage_types, idx, voltage_out,
                   stdout>>

load_off ==
    /\ pc = "dispatch"
    /\ command = "load-off"
    /\ RunCommand("load.off")

\* match opt.command { Command::Usage { .. } => usage(..) }: enter the loop
usage ==
    /\ pc = "dispatch"
    /\ command = "usage"
    /\ pc' = "usage"
    /\ idx' = 1
    /\ UNCHANGED <<command, tokens, ups_name, usage_types, voltage_out, calls,
                   stdout, error, exit_code>>

\* mutation of IsPowerBranch: Power is handled like the measured kinds
IsPowerBranch_never(ut) == FALSE

\* the branch of the loop body the usage type takes
IsPowerBranch(ut) == ut = "Power"

\* mutation of UsageVar: the value is split off and printed without its name
UsageVar_value_only ==
    /\ pc = "usage"
    /\ idx <= Len(usage_types)
    /\ ~IsPowerBranch(usage_types[idx])
    /\ \E r \in GetVarOutcomes :
         LET part == IF r.ok THEN splitn2_nth1(r.val) ELSE Err(r.err)
         IN  /\ calls' = Append(calls, GetVarCall(ups_name, var_name(usage_types[idx]), r))
             /\ IF part.ok
                THEN /\ stdout' = Append(stdout, part.val)
                     /\ idx' = idx + 1
                     /\ UNCHANGED <<pc, error, exit_code>>
                ELSE /\ Exit(part.err, 1)
                     /\ UNCHANGED <<stdout, idx>>
    /\ UNCHANGED <<command, tokens, ups_name, usage_types, voltage_out>>

\* else branch: get_var on the mapped name, println!("{var_value}")
UsageVar ==
    /\ pc = "usage"
    /\ idx <= Len(usage_types)
    /\ ~IsPowerBranch(usage_types[idx])
    /\ \E r \in GetVarOutcomes :
         /\ calls' = Append(calls, GetVarCall(ups_name, var_name(usage_types[idx]), r))
         /\ IF r.ok
            THEN /\ stdout' = Append(stdout, r.val)
                 /\ idx' = idx + 1
                 /\ UNCHANGED <<pc, error, exit_code>>
            ELSE /\ Exit(r.err, 1)
                 /\ UNCHANGED <<stdout, idx>>
    /\ UNCHANGED <<command, tokens, ups_name, usage_types, voltage_out>>

\* mutation of UsagePowerVoltage: a failed fetch skips the type and goes on
UsagePowerVoltage_swallow ==
    /\ pc = "usage"
    /\ idx <= Len(usage_types)
    /\ IsPowerBranch(usage_types[idx])
    /\ \E r \in GetVarOutcomes :
         LET name == var_name("VoltageOut")
             v == parse_var(r, name)
         IN  /\ calls' = Append(calls, GetVarCall(ups_name, name, r))
             /\ IF v.ok
                THEN /\ voltage_out' = v.val
                     /\ pc' = "power_current"
                     /\ UNCHANGED idx
                ELSE /\ idx' = idx + 1
                     /\ UNCHANGED <<voltage_out, pc>>
    /\ UNCHANGED <<command, tokens, ups_name, usage_types, stdout, error, exit_code>>

\* Power branch: let voltage_out = parse_var::<f64>(.., &UsageType::VoltageOut)?
UsagePowerVoltage ==
    /\ pc = "usage"
    /\ idx <= Len(usage_types)
    /\ IsPowerBranch(usage_types[idx])
    /\ \E r \in GetVarOutcomes :
         LET name == var_name("VoltageOut")
             v == parse_var(r, name)
         IN  /\ calls' = Append(calls, GetVarCall(ups_name, name, r))
             /\ IF v.ok
                THEN /\ voltage_out' = v.val
                     /\ pc' = "power_current"
                     /\ UNCHANGED <<error, exit_code>>
                ELSE /\ Exit(v.err, 1)
                     /\ UNCHANGED voltage_out
    /\ UNCHANGED <<command, tokens, ups_name, usage_types, idx, stdout>>

\* Power branch: let current_out = parse_var::<f64>(.., &UsageType::CurrentOut)?
\* then the product and println!("power: {power:.2} W")
UsagePowerCurrent ==
    /\ pc = "power_current"
    /\ \E r \in GetVarOutcomes :
         LET name == var_name("CurrentOut")
             c == parse_var(r, name)
         IN  /\ calls' = Append(calls, GetVarCall(ups_name, name, r))
             /\ IF c.ok
                THEN /\ stdout' = Append(stdout, PowerLine(voltage_out, c.val))
                     /\ idx' = idx + 1
                     /\ pc' = "usage"
                     /\ UNCHANGED <<error, exit_code>>
                ELSE /\ Exit(c.err, 1)
                     /\ UNCHANGED <<stdout, idx>>
    /\ voltage_out' = NoNumber
    /\ UNCHANGED <<command, tokens, ups_name, usage_types>>

\* mutation of UsageDone: the loop stops one element early
UsageDone_early ==
    /\ pc = "usage"
    /\ idx >= Len(usage_types)
    /\ Exit("", 0)
    /\ UNCHANGED <<command, tokens, ups_name, usage_types, idx, voltage_out,
                   calls, stdout>>

\* the for loop is exhausted: Ok(()) of usage and of main
UsageDone ==
    /\ pc = "usage"
    /\ idx > Len(usage_types)
    /\ Exit("", 0)
    /\ UNCHANGED <<command, tokens, ups_name, usage_types, idx, voltage_out,
                   calls, stdout>>

Next ==
    \/ ParseArgs
    \/ BuildConfig
    \/ Connect
    \/ load_on
    \/ load_off
    \/ usage
    \/ UsageVar
    \/ UsagePowerVoltage
    \/ UsagePowerCurrent
    \/ UsageDone

Spec == Init /\ [][Next]_vars

\* the resolver alone, over every token
InitResolve == InitWith(AllTokens, MaxTokens) /\ command = "usage"

NextResolve == ParseArgs

SpecResolve == InitResolve /\ [][NextResolve]_vars

----------------------------------------------------------------------------
(* Reading the log of calls *)

\* number of get_var calls a usage type takes when it is handled to the end
Cost(ut) == IF ut = "Power" THEN 2 ELSE 1

\* get_var calls taken by the first n usage types
RECURSIVE SumCost(_)
SumCost(n) == IF n = 0 THEN 0 ELSE SumCost(n - 1) + Cost(usage_types[n])

\* position in calls of the first get_var of the i-th usage type
\* (calls[1] is the connection)
Slot(i) == 2 + SumCost(i - 1)

CallsOf(op) == {k \in DOMAIN calls : calls[k].op = op}

Connected == Len(calls) >= 1 /\ calls[1].op = "connect" /\ calls[1].ok

Exited == pc = "exit"

\* the synonym table of the resolver, as pairs
SynonymTable ==
    {<<"vin", "VoltageIn">>, <<"volt_in", "VoltageIn">>, <<"voltage_in", "VoltageIn">>,
     <<"vout", "VoltageOut">>, <<"volt_out", "VoltageOut">>, <<"voltage_out", "VoltageOut">>,
     <<"cout", "CurrentOut">>, <<"cur_out", "CurrentOut">>, <<"current_out", "CurrentOut">>,
     <<"pwr", "Power">>, <<"power", "Power">>}

Recognized(tok) == \E ut \in UsageType : <<tok, ut>> \in SynonymTable

TypeOfToken(tok) == CHOOSE ut \in UsageType : <<tok, ut>> \in SynonymTable

\* the protocol variable names of the three measured kinds
NameTable ==
    {<<"VoltageIn", "input.voltage">>, <<"VoltageOut", "output.voltage">>,
     <<"CurrentOut", "output.current">>}

NameOfType(ut) == CHOOSE n \in {"input.voltage", "output.voltage", "output.current"} :
                      <<ut, n>> \in NameTable

\* texts of Texts whose part after the first ": " is a number
NumericTexts ==
    {"output.voltage: 120.0", "output.current: 2.0", "input.voltage: 118.5",
     "output.current: -0.5"}

\* texts of Texts with no ": ", or with something else than a number after it
UnparseableTexts == {"120.0", "output.voltage: n/a", "ups.status: OL: 2.0"}

\* the product of the values of two numeric texts, with two decimals
ProductText(a, b) ==
    LET V == "output.voltage: 120.0"
        C == "output.current: 2.0"
        I == "input.voltage: 118.5"
        N == "output.current: -0.5"
        p == {a, b}
    IN  CASE p = {V} -> "14400.00"
          [] p = {V, C} -> "240.00"
          [] p = {V, I} -> "14220.00"
          [] p = {V, N} -> "-60.00"
          [] p = {C} -> "4.00"
          [] p = {C, I} -> "237.00"
          [] p = {C, N} -> "-1.00"
          [] p = {I} -> "14042.25"
          [] p = {I, N} -> "-59.25"
          [] p = {N} -> "0.25"

\* the line the i-th requested type stands for, given what its fetches returned
LineOf(i) ==
    IF TypeOfToken(tokens[i]) = "Power"
    THEN "power: " \o ProductText(calls[Slot(i)].resp, calls[Slot(i) + 1].resp) \o " W"
    ELSE calls[Slot(i)].resp

----------------------------------------------------------------------------
(* C1: resolving a token follows the synonym table exactly: the eleven     *)
(* listed tokens give their usage type, every other token (case variants,  *)
(* padded tokens, the empty token) fails with "Invalid usage type value."  *)
C1_ResolutionIsSynonymTable ==
    pc /= "start" =>
        IF \A k \in DOMAIN tokens : Recognized(tokens[k])
        THEN /\ pc = "config"
             /\ error = ""
             /\ usage_types = [k \in DOMAIN tokens |-> TypeOfToken(tokens[k])]
        ELSE /\ pc = "exit"
             /\ error = "Invalid usage type value."
             /\ exit_code /= 0
             /\ usage_types = <<>>

C1_Witness ==
    /\ pc = "exit"
    /\ tokens = <<"cur_out", "VIN">>
    /\ error = "Invalid usage type value."

(* C2: a usage invocation that succeeds has printed exactly one line per   *)
(* requested type, the i-th line being the line of the i-th token: order   *)
(* and duplicates are kept, and an empty list prints nothing.              *)
C2_OneLinePerTypeInOrder ==
    (/\ command = "usage"
     /\ Exited
     /\ Connected
     /\ \A k \in DOMAIN calls : calls[k].ok
     /\ error \notin {"Variable output.voltage not found",
                      "Variable output.current not found"}) =>
        /\ exit_code = 0
        /\ Len(stdout) = Len(tokens)
        /\ \A i \in DOMAIN tokens : stdout[i] = LineOf(i)

C2_Witness ==
    /\ Exited
    /\ exit_code = 0
    /\ tokens = <<"power", "power">>
    /\ stdout = <<"power: 240.00 W", "power: -60.00 W">>

\* a usage invocation that failed after the connection was opened
UsageFailed == command = "usage" /\ Exited /\ exit_code /= 0 /\ Connected

\* what a failed usage invocation has done, and that a failed call is the last
C3_FailedState ==
    /\ UsageFailed =>
         /\ idx <= Len(usage_types)
         /\ error /= ""
         /\ Len(stdout) = idx - 1
         /\ \A i \in 1..(idx - 1) : stdout[i] = LineOf(i)
         /\ Len(calls) \in {Slot(idx), Slot(idx) + 1}
         /\ Len(calls) = Slot(idx) + 1 => usage_types[idx] = "Power"
         /\ LET last == calls[Len(calls)]
            IN  \/ ~last.ok
                \/ usage_types[idx] = "Power" /\ last.resp \in UnparseableTexts
    /\ \A k \in DOMAIN calls : ~calls[k].ok => (k = Len(calls) /\ Exited /\ exit_code /= 0)
    /\ (UsageFailed /\ usage_types = <<"Power", "VoltageIn">> /\ idx = 1) =>
         /\ stdout = <<>>
         /\ \A k \in DOMAIN calls : calls[k].arg /= "input.voltage"

\* once the process has ended, nothing is called or printed
C3_AfterExit ==
    Exited => (pc' = pc /\ calls' = calls /\ stdout' = stdout /\ exit_code' = exit_code)

\* printed lines are never taken back
C3_LinesStay ==
    Len(stdout) <= Len(stdout') /\ SubSeq(stdout', 1, Len(stdout)) = stdout

(* C3: usage is sequential and fail-fast: when the first failing fetch or  *)
(* parse happens at the i-th type, the lines of types 1..i-1 are printed   *)
(* and stay printed, nothing is printed for type i or later, no get_var    *)
(* follows the failure, and the invocation ends with an error; for         *)
(* [power, voltage_in] with a failing Power fetch, input.voltage is never  *)
(* fetched and nothing is printed.                                         *)
C3_SequentialFailFast == [](C3_FailedState) /\ [][C3_AfterExit /\ C3_LinesStay]_vars

C3_Witness ==
    /\ UsageFailed
    /\ tokens = <<"power", "voltage_in">>
    /\ Len(calls) = 2
    /\ ~calls[2].ok
    /\ stdout = <<>>

(* C4: a Power request fetches output.voltage and then output.current of   *)
(* the configured device, reads the number after the first ": " of each    *)
(* text and prints "power: <product with two decimals> W"; the texts       *)
(* "output.voltage: 120.0" and "output.current: 2.0" give                  *)
(* "power: 240.00 W".                                                      *)
C4_PowerLine ==
    command = "usage" =>
      /\ \A i \in 1..(idx - 1) : usage_types[i] = "Power" =>
           LET v == calls[Slot(i)]
               c == calls[Slot(i) + 1]
           IN  /\ v = GetVarCall(ups_name, "output.voltage", Ok(v.resp))
               /\ c = GetVarCall(ups_name, "output.current", Ok(c.resp))
               /\ v.resp \in NumericTexts
               /\ c.resp \in NumericTexts
               /\ stdout[i] = "power: " \o ProductText(v.resp, c.resp) \o " W"
               /\ (v.resp = "output.voltage: 120.0" /\ c.resp = "output.current: 2.0")
                     => stdout[i] = "power: 240.00 W"
      /\ pc = "power_current" =>
           /\ Len(calls) = Slot(idx)
           /\ calls[Slot(idx)] = GetVarCall(ups_name, "output.voltage", Ok(calls[Slot(idx)].resp))

C4_Witness ==
    /\ tokens = <<"pwr">>
    /\ Len(calls) = 3
    /\ calls[2].resp = "output.voltage: 120.0"
    /\ calls[3].resp = "output.current: 2.0"
    /\ stdout = <<"power: 240.00 W">>

(* C5: with the connection established, load-off calls run_command exactly *)
(* once with "load.off" and the configured device, load-on likewise with   *)
(* "load.on"; neither calls get_var nor prints, and the invocation fails   *)
(* exactly when the run_command call fails.                                *)
C5_LoadCommand ==
    command \in {"load-off", "load-on"} =>
      /\ stdout = <<>>
      /\ CallsOf("get_var") = {}
      /\ (Connected /\ ~Exited) => Len(calls) = 1
      /\ (Connected /\ Exited) =>
           /\ Len(calls) = 2
           /\ calls[2].op = "run_command"
           /\ calls[2].ups = ups_name
           /\ calls[2].arg = (IF command = "load-off" THEN "load.off" ELSE "load.on")
           /\ IF calls[2].ok THEN exit_code = 0 /\ error = ""
              ELSE exit_code /= 0 /\ error = RunCommandError

C5_Witness ==
    /\ command = "load-off"
    /\ ups_name = "eaton"
    /\ Exited
    /\ exit_code = 0
    /\ calls = <<ConnectCall(TRUE), RunCommandCall("eaton", "load.off", TRUE)>>

(* C6: each non-Power type takes exactly one get_var, for its mapped name  *)
(* on the configured device, and the returned text is printed unchanged    *)
(* as one line whatever its format: only a failed fetch can fail it.       *)
C6_RawValuePrinted ==
    command = "usage" =>
      /\ \A i \in 1..(idx - 1) : usage_types[i] /= "Power" =>
           LET c == calls[Slot(i)]
           IN  /\ c = GetVarCall(ups_name, NameOfType(usage_types[i]), Ok(c.resp))
               /\ stdout[i] = c.resp
      /\ pc = "usage" => (Len(calls) = Slot(idx) - 1 /\ Len(stdout) = idx - 1)
      /\ (UsageFailed /\ usage_types[idx] /= "Power") =>
           /\ Len(calls) = Slot(idx)
           /\ calls[Slot(idx)] =
                GetVarCall(ups_name, NameOfType(usage_types[idx]), Err(GetVarError))
           /\ error = GetVarError

C6_Witness ==
    /\ tokens = <<"voltage_in", "vout">>
    /\ Len(calls) = 3
    /\ calls[2].arg = "input.voltage"
    /\ calls[3].arg = "output.voltage"
    /\ stdout = <<"input.voltage: 118.5", "120.0">>

(* C7: on the Power path a fetched text with no ": ", or with something    *)
(* else than a number after it, fails the operation with "Variable <name>  *)
(* not found", <name> being the variable just read (output.voltage or      *)
(* output.current); both causes give that same error and no power line is  *)
(* printed.                                                                *)
C7_UnparseableIsNotFound ==
    (/\ command = "usage"
     /\ Connected
     /\ idx <= Len(usage_types)
     /\ usage_types[idx] = "Power"
     /\ Len(calls) >= Slot(idx)
     /\ calls[Len(calls)].ok
     /\ calls[Len(calls)].resp \in UnparseableTexts) =>
        LET last == calls[Len(calls)]
        IN  /\ Exited
            /\ exit_code /= 0
            /\ last.arg = (IF Len(calls) = Slot(idx) THEN "output.voltage"
                           ELSE "output.current")
            /\ error = "Variable " \o last.arg \o " not found"
            /\ Len(stdout) = idx - 1

C7_Witness ==
    /\ tokens = <<"power">>
    /\ Len(calls) = 2
    /\ calls[2].ok
    /\ calls[2].resp = "120.0"
    /\ error = "Variable output.voltage not found"
    /\ stdout = <<>>

(* C8: the name mapping sends VoltageIn, VoltageOut and CurrentOut to the  *)
(* distinct names input.voltage, output.voltage and output.current, Power  *)
(* has the empty name, and no get_var is ever issued with it: every name   *)
(* passed to the collaborator is one of the three.                         *)
C8_NeverLooksUpPower ==
    /\ \A ut \in UsageType \ {"Power"} : var_name(ut) = NameOfType(ut)
    /\ var_name("Power") = ""
    /\ \A k \in CallsOf("get_var") :
         calls[k].arg \in {"input.voltage", "output.voltage", "output.current"}

C8_Witness ==
    /\ tokens = <<"power", "voltage_in">>
    /\ Exited
    /\ exit_code = 0
    /\ Cardinality(CallsOf("get_var")) = 3

(* C9: a usage command with an unrecognized token fails as a whole: no     *)
(* line is printed and no call reaches the collaborator, not even for the  *)
(* recognized tokens before the bad one, since the tokens are resolved     *)
(* before the connection is opened.                                        *)
C9_BadTokenFailsWholeCommand ==
    (command = "usage" /\ \E k \in DOMAIN tokens : ~Recognized(tokens[k])) =>
        /\ calls = <<>>
        /\ stdout = <<>>
        /\ usage_types = <<>>
        /\ pc \in {"start", "exit"}
        /\ Exited => (exit_code /= 0 /\ error = "Invalid usage type value.")

C9_Witness ==
    /\ tokens = <<"voltage_in", "VIN">>
    /\ Exited
    /\ exit_code /= 0
    /\ calls = <<>>

(* C10, as stated: every invocation opens exactly one connection.          *)
C10_ExactlyOneConnection ==
    Exited => Cardinality(CallsOf("connect")) = 1

\* main has got past the argument parser and the host configuration
PastConfig ==
    \/ pc \in {"dispatch", "usage", "power_current"}
    \/ Exited /\ error \notin {"Invalid usage type value.", HostError}

(* C10, amended: an invocation opens at most one connection, before any    *)
(* exchange: exactly one once the arguments are parsed and the host is     *)
(* configured, none when either fails.  A load command makes exactly one   *)
(* run_command and no get_var; a usage command over N types makes no       *)
(* run_command and at most 2*N get_var, and on success exactly one per     *)
(* non-Power type plus two per Power type; nothing is cached or retried;   *)
(* when the connection fails no exchange is made.                          *)
C10_BoundedExchanges ==
    /\ Cardinality(CallsOf("connect")) <= 1
    /\ calls /= <<>> => calls[1].op = "connect"
    /\ PastConfig => Cardinality(CallsOf("connect")) = 1
    /\ (Exited /\ ~PastConfig) => calls = <<>>
    /\ (calls /= <<>> /\ ~calls[1].ok) => (Len(calls) = 1 /\ Exited /\ exit_code /= 0)
    /\ \A k \in 1..(Len(calls) - 1) : calls[k].ok
    /\ command \in {"load-off", "load-on"} =>
         /\ CallsOf("get_var") = {}
         /\ Cardinality(CallsOf("run_command")) <= 1
         /\ (Exited /\ Connected) => Cardinality(CallsOf("run_command")) = 1
    /\ command = "usage" =>
         /\ CallsOf("run_command") = {}
         /\ Cardinality(CallsOf("get_var")) <= 2 * Len(tokens)
         /\ (Exited /\ exit_code = 0) =>
              Cardinality(CallsOf("get_var")) =
                  Cardinality({k \in DOMAIN tokens : tokens[k] \notin {"pwr", "power"}})
                  + 2 * Cardinality({k \in DOMAIN tokens : tokens[k] \in {"pwr", "power"}})

C10_Witness ==
    /\ tokens = <<"voltage_in", "voltage_in">>
    /\ Exited
    /\ exit_code = 0
    /\ Len(calls) = 3
    /\ calls[2].arg = "input.voltage"
    /\ calls[3].arg = "input.voltage"

====
